---- MODULE Spec2Model ----
(***************************************************************************)
(* Model of the Phase 1 reference evaluator (scripts/evaluate.py) and of   *)
(* the classifiers it calls (scripts/risk.py, scripts/classify.py).        *)
(*                                                                         *)
(* One behaviour is one run of evaluate.main: the constitution is loaded,  *)
(* the call is classified, the rule list is swept twice (one step per rule *)
(* of each sweep) and the result is assembled.                             *)
(*                                                                         *)
(* Python dictionaries are objects: `require` / `allow_override` mappings  *)
(* of the rules and the obligations built from them live in a heap, and a  *)
(* value stored under a key is either a scalar or a reference to a heap    *)
(* object, so that aliasing created by merge_obligations is visible.       *)
(***************************************************************************)
EXTENDS Integers, Sequences, FiniteSets, TLC

\* Largest number of rules in a constitution.
MaxRules == 3

\* Absent key / Python None.
NONE == "none"

----------------------------------------------------------------------------
(* Decision lattice                                                        *)

ORDER == [allow |-> 0, confirm |-> 1, deny |-> 2]

Decisions == DOMAIN ORDER

\* ORDER[a] / ORDER[b] raises KeyError when a or b is no key of ORDER.
max_decision_raises(a, b) == a \notin DOMAIN ORDER \/ b \notin DOMAIN ORDER

\* The meet of the lattice instead of its join: the lower of the two decisions.
max_decision_min(a, b) == IF ORDER[a] >= ORDER[b] THEN b ELSE a

max_decision(a, b) == IF ORDER[a] >= ORDER[b] THEN a ELSE b

----------------------------------------------------------------------------
(* Risk lattice (risk.py)                                                  *)

levels == <<"low", "medium", "high", "critical">>

index(seq, x) == CHOOSE n \in 1..Len(seq) : seq[n] = x

risk_ge(risk, at_least) == index(levels, risk) >= index(levels, at_least)

RiskMax(a, b) == IF risk_ge(a, b) THEN a ELSE b

MessagingTools == {"message.send", "message.broadcast"}

FileTools == {"read", "write", "edit"}

TOOL_BASE ==
    [t \in {"message.send", "message.broadcast", "read", "write", "edit", "exec",
            "web_fetch", "browser.navigate", "browser.upload",
            "nodes.location_get", "nodes.camera_snap", "nodes.screen_record"} |->
        CASE t = "message.send" -> "high"
          [] t = "message.broadcast" -> "critical"
          [] t = "read" -> "medium"
          [] t = "write" -> "high"
          [] t = "edit" -> "high"
          [] t = "exec" -> "critical"
          [] t = "web_fetch" -> "medium"
          [] t = "browser.navigate" -> "medium"
          [] t = "browser.upload" -> "high"
          [] OTHER -> "high"]

\* A table whose default is the bottom of the lattice.
tool_base_risk_low(tool) == IF tool \in DOMAIN TOOL_BASE THEN TOOL_BASE[tool] ELSE "low"

tool_base_risk(tool) == IF tool \in DOMAIN TOOL_BASE THEN TOOL_BASE[tool] ELSE "medium"

\* Commands of the model and the substrings the classifiers look for in them.
\*   net:  "curl ", "wget ", "invoke-webrequest", "scp ", "ssh "
\*   del:  "rm ", "rmdir", "del ", "format", ":(){"
\*   destructive (classify.py): \b(rm\s+-rf|del\s+/s|format\b)\b
CommandFacts ==
    [c \in {"ls", "rm -rf /", "curl x"} |->
        CASE c = "ls" -> [net |-> FALSE, del |-> FALSE, destructive |-> FALSE]
          [] c = "rm -rf /" -> [net |-> FALSE, del |-> TRUE, destructive |-> TRUE]
          [] OTHER -> [net |-> TRUE, del |-> FALSE, destructive |-> FALSE]]

\* str(args.get("command", "")) of an absent command is "": no substring matches.
CmdFacts(cmd) ==
    IF cmd \in DOMAIN CommandFacts THEN CommandFacts[cmd]
    ELSE [net |-> FALSE, del |-> FALSE, destructive |-> FALSE]

\* Strings that are searched are sequences of characters.
LowerChar(c) ==
    IF c = "W" THEN "w" ELSE IF c = "A" THEN "a" ELSE IF c = "I" THEN "i" ELSE c

lower(s) == [n \in 1..Len(s) |-> LowerChar(s[n])]

startswith(s, pre) == Len(pre) <= Len(s) /\ SubSeq(s, 1, Len(pre)) = pre

contains(s, sub) ==
    \E n \in 1..(Len(s) - Len(sub) + 1) : SubSeq(s, n, n + Len(sub) - 1) = sub

SENSITIVE_PATH_HINTS ==
    { <<"\\", "A", "p", "p", "D", "a", "t", "a", "\\">>,
      <<"\\", ".", "s", "s", "h", "\\">>,
      <<"i", "d", "_", "r", "s", "a">>,
      <<"i", "d", "_", "e", "d", "2", "5", "5", "1", "9">>,
      <<"p", "a", "s", "s", "w", "o", "r", "d">>,
      <<"s", "e", "c", "r", "e", "t", "s">>,
      <<"t", "o", "k", "e", "n">> }

PathIsSensitive(p) == \E hint \in SENSITIVE_PATH_HINTS : contains(lower(p), lower(hint))

ArgPath(args) == IF args.path # <<>> THEN args.path ELSE args.file_path

arg_risk(tool, args) ==
    IF tool = "exec"
    THEN IF CmdFacts(args.command).net THEN "critical"
         ELSE IF CmdFacts(args.command).del THEN "critical"
         ELSE "high"
    ELSE IF tool \in FileTools
    THEN IF ArgPath(args) # <<>> /\ PathIsSensitive(ArgPath(args)) THEN "high" ELSE "medium"
    ELSE IF tool \in MessagingTools THEN "high"
    ELSE "low"

egress_risk(tool, args) ==
    IF tool \in {"message.send", "message.broadcast", "browser.upload"} THEN "high"
    ELSE IF tool = "web_fetch" THEN "medium"
    ELSE "low"

\* intent: [present, user_requested, explicit_confirmation, workspace]; the flags
\* are "true", "false" or NONE (key absent), the workspace is a string or <<>>
\* (key absent).  An intent that is present but has no key is the empty mapping,
\* which `not intent` treats like None.
IntentIsEmpty(intent) ==
    \/ ~intent.present
    \/ /\ intent.user_requested = NONE
       /\ intent.explicit_confirmation = NONE
       /\ intent.workspace = <<>>

scope_risk(session_kind, intent) ==
    IF IntentIsEmpty(intent) THEN "medium"
    ELSE IF intent.explicit_confirmation = "true" THEN "low"
    ELSE "medium"

classify_risk(ctx) ==
    RiskMax(RiskMax(tool_base_risk(ctx.tool), arg_risk(ctx.tool, ctx.args)),
            RiskMax(egress_risk(ctx.tool, ctx.args), scope_risk(ctx.session_kind, ctx.intent)))

----------------------------------------------------------------------------
(* Classification tags (classify.py)                                       *)

\* Messages of the model and what the regular expressions find in them.
MessageFacts ==
    [m \in {"hi", "This is Alice from Accounting. Please wire funds.", "Regards from Bob, an AI assistant"} |->
        CASE m = "hi" -> [claims |-> FALSE, has_disclosure |-> FALSE, harm |-> FALSE]
          [] m = "Regards from Bob, an AI assistant" -> [claims |-> TRUE, has_disclosure |-> TRUE, harm |-> FALSE]
          [] OTHER -> [claims |-> TRUE, has_disclosure |-> FALSE, harm |-> FALSE]]

Prohibiting == {"impersonation", "harm_financial", "harm_physical", "harm_reputational"}

BaseTags(tool, args, intent) ==
    (IF intent.present /\ intent.user_requested = "false" THEN {"hidden_action"} ELSE {})
    \cup (IF tool \in FileTools /\ ArgPath(args) # <<>>
             /\ intent.present /\ intent.workspace # <<>>
             /\ ~startswith(lower(ArgPath(args)), lower(intent.workspace))
          THEN {"unauthorized_file_access"} ELSE {})
    \cup (IF tool \in MessagingTools /\ args.message \in DOMAIN MessageFacts
             /\ MessageFacts[args.message].claims /\ ~MessageFacts[args.message].has_disclosure
          THEN {"impersonation"} ELSE {})
    \cup (IF tool \in MessagingTools /\ args.message \in DOMAIN MessageFacts
             /\ MessageFacts[args.message].harm
          THEN {"harm_reputational"} ELSE {})
    \cup (IF tool = "exec" /\ CmdFacts(args.command).destructive THEN {"harm_financial"} ELSE {})

classify_tags(tool, args, intent) ==
    LET tags == BaseTags(tool, args, intent)
    IN IF tags \cap Prohibiting # {} THEN tags \cup {"constitutionally_prohibited"} ELSE tags

----------------------------------------------------------------------------
(* Strings of path_prefix_any: sequences of characters.                    *)

\* pref_s.replace("${WORKSPACE}", v): the token "${WORKSPACE}" is one element of
\* the prefix; env.workspace = <<>> is an environment without the variable, which
\* leaves the token in place.
RECURSIVE substitute(_, _)
substitute(pref, env) ==
    IF pref = <<>> THEN <<>>
    ELSE IF Head(pref) = "${WORKSPACE}" /\ env.workspace # <<>>
         THEN env.workspace \o substitute(Tail(pref), env)
         ELSE <<Head(pref)>> \o substitute(Tail(pref), env)

path_prefix_any(path, prefixes, env) ==
    /\ path # <<>>
    /\ \E n \in 1..Len(prefixes) : startswith(lower(path), lower(substitute(prefixes[n], env)))

----------------------------------------------------------------------------
(* Heap of dictionaries                                                    *)

Keys == {"disclosure", "mode", "text", "allow_override"}

\* Iteration order of dict.items(): insertion order, i.e. the order of the keys in
\* the YAML document; the documents of the model write their keys in this order.
KeyOrder == <<"disclosure", "mode", "text", "allow_override">>

Absent == [isdict |-> FALSE, v |-> 0]

Scalar(n) == [isdict |-> FALSE, v |-> n]

Ref(o) == [isdict |-> TRUE, v |-> o]

EmptyDict == [k \in Keys |-> Absent]

\* One item of the loop of merge_obligations: `k in dst and isinstance(dst[k],
\* dict) and isinstance(v, dict)` recurses into the object dst[k] (and stores that
\* same object back), anything else stores v (a reference stays a reference).
RECURSIVE MergeItems(_, _, _, _)
MergeItem(h, dst, k, v) ==
    IF h[dst][k].isdict /\ v.isdict
    THEN MergeItems(h, h[dst][k].v, v.v, KeyOrder)
    ELSE [h EXCEPT ![dst][k] = v]

MergeItems(h, dst, src, ks) ==
    IF ks = <<>> THEN h
    ELSE LET k == Head(ks)
             v == h[src][k]
         IN IF v = Absent THEN MergeItems(h, dst, src, Tail(ks))
            ELSE MergeItems(MergeItem(h, dst, k, v), dst, src, Tail(ks))

\* merge_obligations(dst, src) for two heap objects; the heap after the call.
merge_obligations(h, dst, src) == MergeItems(h, dst, src, KeyOrder)

----------------------------------------------------------------------------
(* The constitution document                                               *)

\* A `require` / `allow_override` mapping of a rule as written in the document:
\* scalars under the keys of `top` (0: key absent) and, when `nested`, a mapping
\* under "disclosure" with the scalars of `inner`.
Zeros == [k \in Keys |-> 0]

NoShape == [present |-> FALSE, top |-> Zeros, nested |-> FALSE, inner |-> Zeros]

Leaf(k, n) ==
    [present |-> TRUE, top |-> [Zeros EXCEPT ![k] = n], nested |-> FALSE, inner |-> Zeros]

Nested(k, n) ==
    [present |-> TRUE, top |-> Zeros, nested |-> TRUE, inner |-> [Zeros EXCEPT ![k] = n]]

NoList == [present |-> FALSE, vals |-> {}]

NoWhen ==
    [tool |-> NONE, tool_any_of |-> NoList, risk_at_least |-> NONE,
     classification_any_of |-> NoList, decision |-> NONE]

WhenTool(t) == [NoWhen EXCEPT !.tool = t]

WhenDecision(d) == [NoWhen EXCEPT !.decision = d]

WhenRisk(level) == [NoWhen EXCEPT !.risk_at_least = level]

WhenClass(tags) == [NoWhen EXCEPT !.classification_any_of = [present |-> TRUE, vals |-> tags]]

NoAllowIf == [present |-> FALSE, has_path_prefix_any |-> FALSE, prefixes |-> <<>>]

WorkspaceOnly ==
    [present |-> TRUE, has_path_prefix_any |-> TRUE, prefixes |-> << <<"${WORKSPACE}">> >>]

RuleDoc(when, action, allow_if, otherwise, require, allow_override) ==
    [has_id |-> TRUE, when |-> when, action |-> action, allow_if |-> allow_if,
     otherwise |-> otherwise, require |-> require, allow_override |-> allow_override]

\* The same rule without an id.
Anonymous(doc) == [doc EXCEPT !.has_id = FALSE]

Ids == <<"r1", "r2", "r3", "r4", "r5">>

\* The rule list of a document: the n-th rule gets the id Ids[n]; the id of a
\* rule without one is str(rule.get("id") or ""), the empty string.
WithIds(docs) ==
    [n \in 1..Len(docs) |->
        [id |-> IF docs[n].has_id THEN Ids[n] ELSE "", when |-> docs[n].when, action |-> docs[n].action,
         allow_if |-> docs[n].allow_if, otherwise |-> docs[n].otherwise,
         require |-> docs[n].require, allow_override |-> docs[n].allow_override]]

\* yaml.safe_load: loaded = FALSE is the empty document (None).
Constitution(tool_policy, docs) ==
    [loaded |-> TRUE, tool_policy |-> tool_policy, rules |-> WithIds(docs), doc_hash |-> NONE]

NoConstitution ==
    [loaded |-> FALSE, tool_policy |-> NONE, rules |-> <<>>, doc_hash |-> NONE]

\* Heap objects of a loaded constitution with n rules.
RequireObj(n) == 4 * (n - 1) + 1

RequireNestedObj(n) == 4 * (n - 1) + 2

OverrideObj(n) == 4 * (n - 1) + 3

OverrideNestedObj(n) == 4 * (n - 1) + 4

\* Heap objects evaluate.py creates: `obligations` of each pass and of main.
PassObj(n, pass) == 4 * n + pass

FinalObj(n) == 4 * n + 3

TopDict(shape, nestedObj) ==
    [k \in Keys |->
        IF k = "disclosure" /\ shape.nested THEN Ref(nestedObj)
        ELSE IF shape.top[k] = 0 THEN Absent ELSE Scalar(shape.top[k])]

InnerDict(shape) ==
    [k \in Keys |->
        IF shape.nested /\ shape.inner[k] # 0 THEN Scalar(shape.inner[k]) ELSE Absent]

\* The heap right after yaml.safe_load: one object per mapping of the document.
LoadHeap(rules) ==
    [o \in 1..FinalObj(Len(rules)) |->
        IF o > 4 * Len(rules) THEN EmptyDict
        ELSE LET n == ((o - 1) \div 4) + 1
                 slot == ((o - 1) % 4) + 1
             IN CASE slot = 1 -> TopDict(rules[n].require, RequireNestedObj(n))
                  [] slot = 2 -> InnerDict(rules[n].require)
                  [] slot = 3 -> TopDict(rules[n].allow_override, OverrideNestedObj(n))
                  [] OTHER -> InnerDict(rules[n].allow_override)]

----------------------------------------------------------------------------
(* The rule engine (evaluate.py)                                           *)

tool_matches(tool, matcher) == matcher = "*" \/ tool = matcher

match_when(rule_when, tool, risk, classifications, decision) ==
    /\ rule_when.tool # NONE => tool_matches(tool, rule_when.tool)
    /\ rule_when.tool_any_of.present => tool \in rule_when.tool_any_of.vals
    /\ rule_when.risk_at_least # NONE => risk_ge(risk, rule_when.risk_at_least)
    /\ rule_when.classification_any_of.present =>
           rule_when.classification_any_of.vals \cap classifications # {}
    /\ rule_when.decision # NONE => rule_when.decision = decision

\* The gate that lets every call through.
GateNeverClosed(rule, args, env) == FALSE

\* The allow_if gate of a matched rule is closed: "allow_if" in rule,
\* "path_prefix_any" in allow_if and no prefix matches the path.
GateClosed(rule, args, env) ==
    /\ rule.allow_if.present
    /\ rule.allow_if.has_path_prefix_any
    /\ ~path_prefix_any(ArgPath(args), rule.allow_if.prefixes, env)

OtherwiseAction(rule) == IF rule.otherwise = NONE THEN "confirm" ELSE rule.otherwise

RuleAction(rule) == IF rule.action = NONE THEN "allow" ELSE rule.action

\* reason_code after a closed gate raised the decision to d with action act.
OtherwiseReason(reason_code, act, d, rid) ==
    LET r == IF act = "deny" /\ reason_code = NONE THEN rid ELSE reason_code
    IN IF act = "confirm" /\ r = NONE /\ ORDER[d] = ORDER["confirm"] THEN rid ELSE r

\* A reason that only a deny leaves.
ActionReasonOfDeny(reason_code, act, rid) ==
    IF reason_code = NONE /\ act = "deny" THEN rid ELSE reason_code

\* reason_code after the rule's own action act was applied.
ActionReason(reason_code, act, rid) ==
    IF reason_code = NONE /\ act \in {"deny", "confirm"} THEN rid ELSE reason_code

\* One iteration of the loop of evaluate_rules on the locals
\* st = [out_decision, matched, reason_code]: the locals after it, whether the
\* iteration reached the obligation merges (merges) and whether it raised KeyError.
evaluate_rule(rule, st, call, risk, classifications, env) ==
    IF ~match_when(rule.when, call.tool, risk, classifications, st.out_decision)
    THEN [out_decision |-> st.out_decision, matched |-> st.matched,
          reason_code |-> st.reason_code, merges |-> FALSE, raised |-> FALSE]
    ELSE LET m == Append(st.matched, rule.id)
         IN IF GateClosed(rule, call.args, env)
            THEN LET act == OtherwiseAction(rule)
                 IN IF max_decision_raises(st.out_decision, act)
                    THEN [out_decision |-> st.out_decision, matched |-> m,
                          reason_code |-> st.reason_code, merges |-> FALSE, raised |-> TRUE]
                    ELSE LET d == max_decision(st.out_decision, act)
                         IN [out_decision |-> d, matched |-> m,
                             reason_code |-> OtherwiseReason(st.reason_code, act, d, rule.id),
                             merges |-> FALSE, raised |-> FALSE]
            ELSE LET act == RuleAction(rule)
                 IN IF max_decision_raises(st.out_decision, act)
                    THEN [out_decision |-> st.out_decision, matched |-> m,
                          reason_code |-> st.reason_code, merges |-> TRUE, raised |-> TRUE]
                    ELSE [out_decision |-> max_decision(st.out_decision, act), matched |-> m,
                          reason_code |-> ActionReason(st.reason_code, act, rule.id),
                          merges |-> TRUE, raised |-> FALSE]

\* The two merges of a contributing rule n into the obligations object obl.
MergeRule(h, obl, rule, n) ==
    LET h1 == IF rule.require.present THEN merge_obligations(h, obl, RequireObj(n)) ELSE h
    IN IF rule.allow_override.present
       THEN MergeItem(h1, obl, "allow_override", Ref(OverrideObj(n)))
       ELSE h1

\* evaluate_rules without its obligations: the loop from rule n up to rule `upto`
\* on the locals st; raised = TRUE when an iteration raised KeyError.
RECURSIVE Sweep(_, _, _, _, _, _, _, _)
Sweep(rs, n, upto, st, call, risk, classifications, env) ==
    IF n > upto
    THEN [out_decision |-> st.out_decision, matched |-> st.matched,
          reason_code |-> st.reason_code, raised |-> FALSE]
    ELSE LET r == evaluate_rule(rs[n], st, call, risk, classifications, env)
         IN IF r.raised
            THEN [out_decision |-> r.out_decision, matched |-> r.matched,
                  reason_code |-> r.reason_code, raised |-> TRUE]
            ELSE Sweep(rs, n + 1, upto,
                       [out_decision |-> r.out_decision, matched |-> r.matched,
                        reason_code |-> r.reason_code],
                       call, risk, classifications, env)

evaluate_rules(rs, call, risk, classifications, decision, env) ==
    Sweep(rs, 1, Len(rs), [out_decision |-> decision, matched |-> <<>>, reason_code |-> NONE],
          call, risk, classifications, env)

BasePolicy(c) == IF c.tool_policy = NONE THEN "confirm" ELSE c.tool_policy

\* The decision main prints for the rule list rs, or the exception it ends in.
FinalDecision(rs, base_policy, call, risk, classifications, env) ==
    LET p1 == evaluate_rules(rs, call, risk, classifications, base_policy, env)
        p2 == evaluate_rules(rs, call, risk, classifications, p1.out_decision, env)
    IN IF p1.raised \/ p2.raised \/ max_decision_raises(p1.out_decision, p2.out_decision)
       THEN "KeyError"
       ELSE max_decision(p1.out_decision, p2.out_decision)

\* scope_hash: None, or the digest of the canonical JSON of the payload (the
\* digest stands for its preimage).
NoArgs == [path |-> <<>>, file_path |-> <<>>, command |-> NONE, message |-> NONE]

NullHash ==
    [isnull |-> TRUE, tool |-> NONE, args |-> NoArgs, constitution_doc_hash |-> NONE,
     policy_engine_version |-> NONE]

\* A variant that also hashes a denied call.
ScopeHashWhenNotAllowed(final_decision) == final_decision # "allow"

ScopeHashWhen(final_decision) == final_decision = "confirm"

ScopeHash(final_decision, tool, args, doc_hash) ==
    IF ScopeHashWhen(final_decision)
    THEN [isnull |-> FALSE, tool |-> tool, args |-> args, constitution_doc_hash |-> doc_hash,
          policy_engine_version |-> "phase1-ref-eval-1"]
    ELSE NullHash

Set(seq) == {seq[n] : n \in 1..Len(seq)}

----------------------------------------------------------------------------
(* The disclosure helper (apply_disclosure.py)                             *)

MaxMessageLen == 3

MaxTextLen == 2

MaxApplications == 2

\* Characters that are not \w; every other character of a message is a letter.
NonWordChars == {" ", ".", ",", "-", "/"}

IsWord(c) == c \notin NonWordChars

\* The alternatives of AI_DISCLOSURE_HINT, \b(ai|assistant|bot)\b with re.I.
HintWords ==
    { <<"a", "i">>, <<"a", "s", "s", "i", "s", "t", "a", "n", "t">>, <<"b", "o", "t">> }

\* AI_DISCLOSURE_HINT.search(s): an alternative, in any case, that starts and
\* ends at a word boundary.
AI_DISCLOSURE_HINT(s) ==
    \E w \in HintWords : \E n \in 1..(Len(s) - Len(w) + 1) :
        /\ SubSeq(lower(s), n, n + Len(w) - 1) = w
        /\ n = 1 \/ ~IsWord(s[n - 1])
        /\ n + Len(w) - 1 = Len(s) \/ ~IsWord(s[n + Len(w)])

IsSpace(c) == c = " "

RECURSIVE lstrip(_)
lstrip(s) == IF s # <<>> /\ IsSpace(s[1]) THEN lstrip(Tail(s)) ELSE s

RECURSIVE rstrip(_)
rstrip(s) ==
    IF s # <<>> /\ IsSpace(s[Len(s)]) THEN rstrip(SubSeq(s, 1, Len(s) - 1)) ELSE s

strip(s) == rstrip(lstrip(s))

NoDisclosure == [isnone |-> TRUE, mode |-> "", text |-> <<>>]

\* The value of require.disclosure of rule amendment-I-transparency: a mapping
\* with mode and text (each "" when absent), or anything else.
DisclosureDoc(isdict, mode, text) == [isdict |-> isdict, mode |-> mode, text |-> text]

load_disclosure(disc) ==
    IF disc.isdict /\ disc.mode # "" /\ disc.text # <<>>
    THEN [isnone |-> FALSE, mode |-> disc.mode, text |-> disc.text]
    ELSE NoDisclosure

apply(msg, d) ==
    IF d.isnone THEN msg
    ELSE IF d.mode = "append_if_missing"
         THEN IF AI_DISCLOSURE_HINT(msg) THEN msg
              ELSE IF strip(d.text) # <<>> /\ contains(msg, strip(d.text)) THEN msg
              ELSE msg \o d.text
         ELSE msg

----------------------------------------------------------------------------
(* State                                                                   *)

VARIABLES
    constitution,     \* the loaded document (strings and lists, never written)
    heap,             \* the dictionaries: rule mappings and obligations
    call,             \* [tool, args, session_kind, intent]
    env,              \* [workspace]
    pc,               \* "start", "pass1", "pass2", "done", "error"
    i,                \* index of the next rule of the running pass
    risk,
    classifications,
    locals,           \* [out_decision, matched, reason_code] of the running pass
    pass1,            \* [decision, matched, reason_code] returned by pass 1
    out,              \* the printed result
    error,            \* the exception that ended the run, or NONE
    message,          \* the helper's message, a sequence of characters
    disclosure,       \* what load_disclosure returned
    applications      \* how often the helper has been applied to the message

evaluator ==
    <<constitution, heap, call, env, pc, i, risk, classifications, locals, pass1, out, error>>

helper == <<message, disclosure, applications>>

vars == <<evaluator, helper>>

NoLocals == [out_decision |-> NONE, matched |-> <<>>, reason_code |-> NONE]

NoOut ==
    [decision |-> NONE, reason_code |-> NONE, scope_hash |-> NullHash, matched_rules |-> {}]

rules == constitution.rules

NumRules == Len(rules)

PassNo == IF pc = "pass1" THEN 1 ELSE 2

\* main, up to the first call of evaluate_rules: constitution.get on a document
\* that loaded to None raises AttributeError.
Start ==
    /\ pc = "start"
    /\ risk' = classify_risk(call)
    /\ classifications' = classify_tags(call.tool, call.args, call.intent)
    /\ IF ~constitution.loaded
       THEN /\ pc' = "error"
            /\ error' = "AttributeError"
            /\ UNCHANGED <<i, locals>>
       ELSE /\ pc' = "pass1"
            /\ i' = 1
            /\ locals' = [out_decision |-> BasePolicy(constitution), matched |-> <<>>,
                          reason_code |-> NONE]
            /\ UNCHANGED error
    /\ UNCHANGED <<constitution, heap, call, env, pass1, out, helper>>

\* One iteration of `for rule in rules` in either pass.
RuleStep ==
    /\ pc \in {"pass1", "pass2"}
    /\ i <= NumRules
    /\ LET r == evaluate_rule(rules[i], locals, call, risk, classifications, env)
       IN /\ heap' = IF r.merges THEN MergeRule(heap, PassObj(NumRules, PassNo), rules[i], i)
                     ELSE heap
          /\ locals' = [out_decision |-> r.out_decision, matched |-> r.matched,
                        reason_code |-> r.reason_code]
          /\ IF r.raised
             THEN pc' = "error" /\ error' = "KeyError" /\ UNCHANGED i
             ELSE i' = i + 1 /\ UNCHANGED <<pc, error>>
    /\ UNCHANGED <<constitution, call, env, risk, classifications, pass1, out, helper>>

\* Pass 1 returns; pass 2 starts from its decision with fresh locals.
EndPass1 ==
    /\ pc = "pass1"
    /\ i > NumRules
    /\ pass1' = [decision |-> locals.out_decision, matched |-> locals.matched,
                 reason_code |-> locals.reason_code]
    /\ locals' = [out_decision |-> locals.out_decision, matched |-> <<>>, reason_code |-> NONE]
    /\ i' = 1
    /\ pc' = "pass2"
    /\ UNCHANGED <<constitution, heap, call, env, risk, classifications, out, error, helper>>

\* a or b on reason codes: None and the empty string are false.
Or(a, b) == IF a \notin {NONE, ""} THEN a ELSE b

\* Pass 2 returns; main merges, hashes and prints.
Finish ==
    /\ pc = "pass2"
    /\ i > NumRules
    /\ IF max_decision_raises(pass1.decision, locals.out_decision)
       THEN /\ pc' = "error"
            /\ error' = "KeyError"
            /\ UNCHANGED <<heap, out>>
       ELSE LET final_decision == max_decision(pass1.decision, locals.out_decision)
                h1 == merge_obligations(heap, FinalObj(NumRules), PassObj(NumRules, 1))
            IN /\ heap' = merge_obligations(h1, FinalObj(NumRules), PassObj(NumRules, 2))
               /\ out' = [decision |-> final_decision,
                          reason_code |-> Or(pass1.reason_code, locals.reason_code),
                          scope_hash |-> ScopeHash(final_decision, call.tool, call.args,
                                                   constitution.doc_hash),
                          matched_rules |-> Set(pass1.matched) \cup Set(locals.matched)]
               /\ pc' = "done"
               /\ UNCHANGED error
    /\ UNCHANGED <<constitution, call, env, i, risk, classifications, locals, pass1, helper>>

Next == Start \/ RuleStep \/ EndPass1 \/ Finish

\* apply_disclosure.py on a message, and again on what it wrote.
Apply ==
    /\ pc = "helper"
    /\ applications < MaxApplications
    /\ message' = apply(message, disclosure)
    /\ applications' = applications + 1
    /\ UNCHANGED <<evaluator, disclosure>>

NextHelper == Apply

----------------------------------------------------------------------------
(* Inputs                                                                  *)

NoIntent ==
    [present |-> FALSE, user_requested |-> NONE, explicit_confirmation |-> NONE,
     workspace |-> <<>>]

Confirmed == [NoIntent EXCEPT !.present = TRUE, !.user_requested = "true",
                              !.explicit_confirmation = "true"]

Call(tool, args, intent) ==
    [tool |-> tool, args |-> args, session_kind |-> "main", intent |-> intent]

\* --workspace /w
Workspace == [workspace |-> <<"/", "w">>]

\* read of a file inside the workspace (in another case) with a confirmed
\* intent; read of a file outside of it.
FileCalls ==
    { Call("read", [NoArgs EXCEPT !.path = <<"/", "W", "/", "a">>], Confirmed),
      Call("read", [NoArgs EXCEPT !.file_path = <<"/", "e">>], NoIntent) }

\* and exec of `rm -rf /` without intent.
Calls == FileCalls \cup {Call("exec", [NoArgs EXCEPT !.command = "rm -rf /"], NoIntent)}

RECURSIVE SeqsUpTo(_, _)
SeqsUpTo(S, n) ==
    IF n = 0 THEN {<<>>}
    ELSE LET shorter == SeqsUpTo(S, n - 1)
         IN shorter \cup {Append(q, x) : q \in {t \in shorter : Len(t) = n - 1}, x \in S}

Plain(when, action) == RuleDoc(when, action, NoAllowIf, NONE, NoShape, NoShape)

Gated(otherwise) == RuleDoc(NoWhen, NONE, WorkspaceOnly, otherwise, NoShape, NoShape)

\* Rules that decide: unconditional ones, rules for one tool, rules that match on
\* the running decision, one of them without an id, rules behind an allow_if
\* gate; "block" is no action.
DecisionRules ==
    {Plain(NoWhen, a) : a \in {NONE, "confirm", "deny"}}
    \cup {Plain(WhenTool("exec"), a) : a \in {"deny", "block"}}
    \cup {Plain(WhenDecision("allow"), a) : a \in {"confirm", "deny"}}
    \cup {Plain(WhenDecision("confirm"), "deny"), Plain(WhenDecision("deny"), "block")}
    \cup {Gated(o) : o \in {NONE, "deny", "block"}}
    \cup {Anonymous(Plain(WhenDecision("allow"), "deny"))}

Obliged(when, action, require, allow_override) ==
    RuleDoc(when, action, NoAllowIf, NONE, require, allow_override)

\* Rules that oblige: unconditional ones that write a top-level leaf, a nested
\* leaf or a scalar in place of the nested mapping; rules that match on the
\* running decision `allow` and raise it; rules with an allow_override (one of
\* them the human override of a confirm); rules behind an allow_if gate, one
\* that denies with a require, one with an allow_override whose gate denies.
\* The scalars 1 and 2 stand for two different YAML scalars.
ObligationRules ==
    {Obliged(NoWhen, NONE, r, NoShape) :
        r \in {Leaf("mode", 1), Nested("mode", 1), Nested("text", 1), Leaf("disclosure", 1)}}
    \cup {Obliged(WhenDecision("allow"), "confirm", r, NoShape) :
        r \in {Leaf("mode", 2), Nested("mode", 2)}}
    \cup {Obliged(WhenDecision("confirm"), NONE, NoShape, Leaf("mode", 1)),
          Obliged(NoWhen, NONE, NoShape, Leaf("text", 2))}
    \cup {RuleDoc(NoWhen, "deny", WorkspaceOnly, NONE, Leaf("text", 1), NoShape),
          RuleDoc(NoWhen, NONE, WorkspaceOnly, "deny", NoShape, Leaf("mode", 2))}

TypeOK ==
    /\ pc \in {"start", "pass1", "pass2", "done", "error", "helper"}
    /\ error \in {NONE, "AttributeError", "KeyError"}
    /\ i \in 1..(MaxRules + 1)

InitWith(ruleSet, policies, calls) ==
    /\ constitution \in {NoConstitution}
           \cup {Constitution(p, docs) : p \in policies, docs \in SeqsUpTo(ruleSet, MaxRules)}
    /\ heap = LoadHeap(constitution.rules)
    /\ call \in calls
    /\ env = Workspace
    /\ pc = "start"
    /\ i = 1
    /\ risk = NONE
    /\ classifications = {}
    /\ locals = NoLocals
    /\ pass1 = [decision |-> NONE, matched |-> <<>>, reason_code |-> NONE]
    /\ out = NoOut
    /\ error = NONE
    /\ message = <<>>
    /\ disclosure = NoDisclosure
    /\ applications = 0

\* defaults.tool_policy is absent, a decision, or a string that is none.
Init == InitWith(DecisionRules, {NONE, "allow", "deny", "block"}, Calls)

Spec == Init /\ [][Next]_vars

InitObl == InitWith(ObligationRules, {NONE, "allow"}, FileCalls)

SpecObl == InitObl /\ [][Next]_vars

\* --intent '{"user_requested": false}'
Unrequested == [NoIntent EXCEPT !.present = TRUE, !.user_requested = "false"]

\* Calls of every kind of tool: exec of a destructive and of a harmless command,
\* messages with and without an identity claim and an AI disclosure, a tool that
\* is no key of TOOL_BASE (confirmed by the user, not requested, without
\* intent), a fetch, and the file reads.
TagCalls ==
    FileCalls
    \cup {Call("exec", [NoArgs EXCEPT !.command = c], n) :
             c \in {"rm -rf /", "ls"}, n \in {NoIntent, Confirmed}}
    \cup {Call("message.send", [NoArgs EXCEPT !.message = m], NoIntent) : m \in DOMAIN MessageFacts}
    \cup {Call("calendar.list", NoArgs, n) : n \in {NoIntent, Confirmed, Unrequested}}
    \cup {Call("web_fetch", NoArgs, Confirmed)}

\* Rules that match on the classification: on each risk level, on the
\* prohibition tag, on other tags; and an unconditional rule.
TagRules ==
    {Plain(WhenRisk(l), "confirm") : l \in {"low", "medium", "high", "critical"}}
    \cup {Plain(WhenClass({"constitutionally_prohibited"}), "deny"),
          Plain(WhenClass({"hidden_action", "unauthorized_file_access"}), "confirm"),
          Plain(NoWhen, NONE)}

InitTags == InitWith(TagRules, {NONE, "allow"}, TagCalls)

SpecTags == InitTags /\ [][Next]_vars

Alphabet == {"a", "i", "I", " ", "x"}

Modes == {"", "append_if_missing", "replace"}

\* Every require.disclosure with a text of up to MaxTextLen characters, and one
\* that is no mapping.
DisclosureDocs ==
    {DisclosureDoc(TRUE, m, t) : m \in Modes, t \in SeqsUpTo(Alphabet, MaxTextLen)}
    \cup {DisclosureDoc(FALSE, "", <<>>)}

\* The helper alone: no evaluation runs.
InitHelper ==
    /\ constitution = Constitution(NONE, <<>>)
    /\ heap = LoadHeap(constitution.rules)
    /\ call = Call("message.send", NoArgs, NoIntent)
    /\ env = Workspace
    /\ pc = "helper"
    /\ i = 1
    /\ risk = NONE
    /\ classifications = {}
    /\ locals = NoLocals
    /\ pass1 = [decision |-> NONE, matched |-> <<>>, reason_code |-> NONE]
    /\ out = NoOut
    /\ error = NONE
    /\ message \in SeqsUpTo(Alphabet, MaxMessageLen)
    /\ disclosure \in {load_disclosure(d) : d \in DisclosureDocs}
    /\ applications = 0

SpecHelper == InitHelper /\ [][NextHelper]_vars

----------------------------------------------------------------------------
(* Properties of the decision                                              *)

Terminated == pc \in {"done", "error"}

PassEnded == pc \in {"pass1", "pass2"} /\ i > NumRules

\* C2: in every evaluation result scope_hash is non-null if and only if the
\* final decision, the max of the decisions of pass 1 and pass 2, is confirm.
C2_ScopeHashIffConfirm ==
    pc = "done" =>
        /\ out.decision = max_decision(pass1.decision, locals.out_decision)
        /\ ~out.scope_hash.isnull <=> out.decision = "confirm"

C2_Witness == pc = "done" /\ out.decision = "confirm" /\ ~out.scope_hash.isnull

\* C3: the running decision never decreases while the rules are processed (in
\* either pass, and from pass 1 to pass 2), and the decision of a result is at
\* least the defaulted baseline defaults.tool_policy.  (A baseline that is no
\* decision has no place in the order: such a run never prints a result.)
C3_DecisionNeverRegresses ==
    [][ /\ (pc \in {"pass1", "pass2"} /\ locals.out_decision \in Decisions) =>
               /\ locals'.out_decision \in Decisions
               /\ ORDER[locals'.out_decision] >= ORDER[locals.out_decision]
        /\ pc' = "done" =>
               /\ BasePolicy(constitution) \in Decisions
               /\ ORDER[out'.decision] >= ORDER[BasePolicy(constitution)] ]_vars

\* Both passes raised the decision: allow, then confirm, then deny.
C3_Witness ==
    /\ pc = "done"
    /\ BasePolicy(constitution) = "allow"
    /\ pass1.decision = "confirm"
    /\ out.decision = "deny"

Permute(rs, perm) == [n \in 1..Len(rs) |-> rs[perm[n]]]

Reorderings(rs) == {Permute(rs, perm) : perm \in Permutations(1..Len(rs))}

Outcome == IF pc = "done" THEN out.decision ELSE error

\* C4: every reordering of the rules gives the final decision of this
\* run, also when rules carry a when.decision predicate.
C4_OrderIndependent ==
    pc = "done" =>
        \A rs \in Reorderings(rules) :
            FinalDecision(rs, BasePolicy(constitution), call, risk, classifications, env)
                = out.decision

NoDecisionPredicate == \A n \in 1..NumRules : rules[n].when.decision = NONE

\* The order only matters through when.decision: when no rule carries that
\* predicate, every reordering of the rules ends as this run does, in the same
\* final decision or in the same error.
OrderIndependentWithoutDecisionPredicate ==
    (Terminated /\ constitution.loaded /\ NoDecisionPredicate) =>
        \A rs \in Reorderings(rules) :
            FinalDecision(rs, BasePolicy(constitution), call, risk, classifications, env)
                = Outcome

\* C5: a third pass of evaluate_rules, started from the decision after two
\* passes, returns that same decision.
C5_ThirdPassIsStable ==
    pc = "done" =>
        LET p3 == evaluate_rules(rules, call, risk, classifications, out.decision, env)
        IN ~p3.raised /\ p3.out_decision = out.decision

\* The rules that were given an action that is no key of ORDER.
HasUnknownAction ==
    \E n \in 1..NumRules :
        \/ RuleAction(rules[n]) \notin DOMAIN ORDER
        \/ rules[n].allow_if.present /\ OtherwiseAction(rules[n]) \notin DOMAIN ORDER

\* C10: a constitution with an unknown action (or otherwise.action) never
\* produces an evaluation result, whatever the call.
C10_UnknownActionRejected == HasUnknownAction => pc # "done"

EmptyConstitution ==
    \/ ~constitution.loaded
    \/ constitution.tool_policy = NONE /\ rules = <<>> /\ constitution.doc_hash = NONE

\* C9: on an absent or empty constitution the evaluation does not end in an
\* error, and its result is the baseline confirm with empty obligations.
C9_TotalOnEmptyConstitution ==
    EmptyConstitution =>
        /\ pc # "error"
        /\ pc = "done" => out.decision = "confirm" /\ heap[FinalObj(NumRules)] = EmptyDict

\* The running pass started from this decision.
PassStart == IF pc = "pass1" THEN BasePolicy(constitution) ELSE pass1.decision

\* The locals of the running pass after its first k iterations.
LocalsAfter(k) ==
    Sweep(rules, 1, k, [out_decision |-> PassStart, matched |-> <<>>, reason_code |-> NONE],
          call, risk, classifications, env)

\* Rule n matched in the running pass, and the action it applied (its own, or
\* otherwise.action behind a closed gate).
MatchedAt(n) ==
    match_when(rules[n].when, call.tool, risk, classifications, LocalsAfter(n - 1).out_decision)

AppliedAction(n) ==
    IF GateClosed(rules[n], call.args, env) THEN OtherwiseAction(rules[n])
    ELSE RuleAction(rules[n])

\* Rule n raised the running decision to the level the pass ends at.
RaisedToFinal(n) ==
    /\ LocalsAfter(n - 1).out_decision # locals.out_decision
    /\ LocalsAfter(n).out_decision = locals.out_decision

\* C8: at the end of a pass, reason_code is the id of the rule that raised the
\* running decision to the level the pass ends at, and a reason_code is only
\* ever the id of a matched rule whose action is that final level.
C8_ReasonIsRuleAtFinalLevel ==
    PassEnded =>
        /\ \A n \in 1..NumRules : RaisedToFinal(n) => locals.reason_code = rules[n].id
        /\ locals.reason_code # NONE =>
               \E n \in 1..NumRules :
                   /\ rules[n].id = locals.reason_code
                   /\ MatchedAt(n)
                   /\ AppliedAction(n) = locals.out_decision

----------------------------------------------------------------------------
(* Properties of the obligations                                           *)

\* The value of the dictionary o as a set of entries [p, v]: v is the scalar at
\* the path p, or 0 when the path holds a mapping.
RECURSIVE Flat(_, _, _)
Flat(h, o, prefix) ==
    UNION { IF h[o][k] = Absent THEN {}
            ELSE IF h[o][k].isdict
                 THEN {[p |-> Append(prefix, k), v |-> 0]}
                          \cup Flat(h, h[o][k].v, Append(prefix, k))
                 ELSE {[p |-> Append(prefix, k), v |-> h[o][k].v]} : k \in Keys }

\* The mappings of rule n as the document wrote them.
OriginalRequire(n) ==
    IF rules[n].require.present THEN Flat(LoadHeap(rules), RequireObj(n), <<>>) ELSE {}

OriginalOverride(n) ==
    IF rules[n].allow_override.present
    THEN {[p |-> <<"allow_override">>, v |-> 0]}
             \cup Flat(LoadHeap(rules), OverrideObj(n), <<"allow_override">>)
    ELSE {}

\* C1: evaluation never changes a require or allow_override mapping of a rule,
\* at any depth.
C1_ConstitutionNotMutated ==
    \A n \in 1..NumRules :
        /\ Flat(heap, RequireObj(n), <<>>) = Flat(LoadHeap(rules), RequireObj(n), <<>>)
        /\ Flat(heap, OverrideObj(n), <<>>) = Flat(LoadHeap(rules), OverrideObj(n), <<>>)

\* Deep merge of two values without side effect: an entry of the left is kept
\* unless the right has a scalar at its path or above it, or a mapping where the
\* left has a scalar.
PureMerge(left, right) ==
    right \cup {a \in left :
                  ~\E b \in right :
                      /\ startswith(a.p, b.p)
                      /\ b.v # 0 \/ (b.p = a.p /\ a.v # 0)}

\* Rule n reached its obligation merges in the pass that started from d0.
MergedIn(d0, n) ==
    LET before == Sweep(rules, 1, n - 1,
                        [out_decision |-> d0, matched |-> <<>>, reason_code |-> NONE],
                        call, risk, classifications, env)
    IN evaluate_rule(rules[n],
                     [out_decision |-> before.out_decision, matched |-> before.matched,
                      reason_code |-> before.reason_code],
                     call, risk, classifications, env).merges

\* Deep merge, in document order, of the original mappings of the rules up to
\* rule n that contributed in the pass that started from d0.
RECURSIVE PurePass(_, _)
PurePass(d0, n) ==
    IF n = 0 THEN {}
    ELSE IF MergedIn(d0, n)
         THEN PureMerge(PureMerge(PurePass(d0, n - 1), OriginalRequire(n)), OriginalOverride(n))
         ELSE PurePass(d0, n - 1)

FinalObligations == Flat(heap, FinalObj(NumRules), <<>>)

\* C7: the final obligations are the side-effect-free deep merge of the
\* obligations of pass 1 with those of pass 2, each the deep merge in document
\* order of the original mappings of the rules that contributed in that pass.
C7_ObligationsArePureMerge ==
    pc = "done" =>
        FinalObligations =
            PureMerge(PurePass(BasePolicy(constitution), NumRules),
                      PurePass(pass1.decision, NumRules))

Contributed(n) == MergedIn(BasePolicy(constitution), n) \/ MergedIn(pass1.decision, n)

Original(n) == PureMerge(OriginalRequire(n), OriginalOverride(n))

Leaves(n) == {e \in Original(n) : e.v # 0}

\* C6: when exactly two rules a, b (a before b) contribute obligations, a leaf
\* key both write holds the value of b, and a leaf key only one of them writes
\* (the other writing nothing at it, above it or below it) is kept.
C6_LaterRuleWinsLeaf ==
    pc = "done" =>
        \A a, b \in 1..NumRules :
            (a < b /\ {n \in 1..NumRules : Contributed(n)} = {a, b}) =>
                /\ \A ea \in Leaves(a), eb \in Leaves(b) :
                       ea.p = eb.p => eb \in FinalObligations
                /\ \A x \in {a, b} : \A e \in Leaves(x) :
                       (\A f \in Original(a + b - x) :
                            ~startswith(e.p, f.p) /\ ~startswith(f.p, e.p))
                           => e \in FinalObligations

----------------------------------------------------------------------------
(* Properties of the disclosure helper                                     *)

\* C11: applying a disclosure is idempotent: once it has been applied to a
\* message, applying the same disclosure again leaves the message as it is.
C11_ApplyIdempotent ==
    [][(pc = "helper" /\ applications >= 1) => message' = message]_vars

\* The same for a disclosure whose text has a character that is no whitespace.
ApplyIdempotentOnVisibleText ==
    [][(pc = "helper" /\ applications >= 1 /\ strip(disclosure.text) # <<>>)
           => message' = message]_vars

----------------------------------------------------------------------------
(* Properties of the classification                                        *)

Prohibited == "constitutionally_prohibited" \in classifications

ProhibitionRule == Plain(WhenClass({"constitutionally_prohibited"}), "deny")

HasProhibitionRule ==
    \E n \in 1..NumRules : rules[n].when = ProhibitionRule.when /\ rules[n].action = "deny"

\* C12: a call whose classification tags include constitutionally_prohibited is
\* evaluated to the final decision deny.
C12_ProhibitedIsDenied == (pc = "done" /\ Prohibited) => out.decision = "deny"

\* The same under a constitution that has a rule denying the tag.
ProhibitedIsDeniedByProhibitionRule ==
    (pc = "done" /\ Prohibited /\ HasProhibitionRule) => out.decision = "deny"

----------------------------------------------------------------------------
(* Properties of the allow_if gate                                         *)

\* The rule of the next iteration matches, has allow_if.path_prefix_any, and the
\* path of the call starts with none of the substituted prefixes.
MatchedOutsidePrefixes ==
    /\ pc \in {"pass1", "pass2"}
    /\ i <= NumRules
    /\ match_when(rules[i].when, call.tool, risk, classifications, locals.out_decision)
    /\ rules[i].allow_if.has_path_prefix_any
    /\ ~path_prefix_any(ArgPath(call.args), rules[i].allow_if.prefixes, env)

\* C13: when a matched rule has allow_if.path_prefix_any and the path of the
\* call starts with none of the substituted prefixes, the iteration records the
\* rule's id in matched, raises the running decision by max with
\* otherwise.action (default confirm) and does nothing else: no obligation is
\* merged and the rule's own action is not applied.  (With an otherwise.action
\* that is no decision the max raises KeyError instead.)
C13_ClosedGateOnlyRaises ==
    [][ MatchedOutsidePrefixes =>
          /\ locals'.matched = Append(locals.matched, rules[i].id)
          /\ heap' = heap
          /\ IF max_decision_raises(locals.out_decision, OtherwiseAction(rules[i]))
             THEN pc' = "error" /\ locals'.out_decision = locals.out_decision
             ELSE /\ pc' = pc
                  /\ locals'.out_decision =
                         max_decision(locals.out_decision, OtherwiseAction(rules[i])) ]_vars

\* A result of confirm, without obligations, from a single rule that denies and
\* requires, matched behind its closed gate.
C13_Witness ==
    /\ pc = "done"
    /\ NumRules = 1
    /\ rules[1].allow_if.has_path_prefix_any
    /\ ~path_prefix_any(ArgPath(call.args), rules[1].allow_if.prefixes, env)
    /\ rules[1].action = "deny"
    /\ rules[1].require.present
    /\ rules[1].id \in out.matched_rules
    /\ out.decision = "confirm"
    /\ FinalObligations = {}

----------------------------------------------------------------------------
(* Properties of rules on the decision                                     *)

\* The `when` of rule n consists only of `decision: D`.
OnlyDecision(n) ==
    rules[n].when.decision # NONE /\ rules[n].when = WhenDecision(rules[n].when.decision)

\* C14: a rule whose `when` consists only of `decision: D` is in matched_rules
\* of a result if and only if the final decision of the result is D.
C14_DecisionRuleIffFinal ==
    pc = "done" =>
        \A n \in 1..NumRules :
            OnlyDecision(n) =>
                (rules[n].id \in out.matched_rules <=> rules[n].when.decision = out.decision)

\* What holds instead: such a rule matches in a pass exactly when D is the
\* running decision of that pass at the rule's turn.
DecisionRuleIffRunning ==
    [][ (pc \in {"pass1", "pass2"} /\ i <= NumRules /\ OnlyDecision(i)) =>
            (locals'.matched # locals.matched <=> rules[i].when.decision = locals.out_decision)
      ]_vars

----------------------------------------------------------------------------
(* Properties of the risk                                                  *)

Classified == pc \in {"pass1", "pass2", "done", "error"}

\* C15: the classified risk of a call is never low: it is at least medium for
\* every tool, in TOOL_BASE or not, and every intent, a confirmed one included;
\* so every rule whose `when` is only risk_at_least: low or risk_at_least: medium
\* is matched in every result.
C15_RiskNeverLow ==
    /\ Classified => risk # "low" /\ risk_ge(risk, "medium")
    /\ pc = "done" =>
           \A n \in 1..NumRules :
               rules[n].when \in {WhenRisk("low"), WhenRisk("medium")} =>
                   rules[n].id \in out.matched_rules

\* A confirmed call of a tool that is no key of TOOL_BASE: every axis but the
\* tool's is low, and a rule on risk_at_least: medium is matched.
C15_Witness ==
    /\ pc = "done"
    /\ call.tool \notin DOMAIN TOOL_BASE
    /\ call.intent.explicit_confirmation = "true"
    /\ arg_risk(call.tool, call.args) = "low"
    /\ egress_risk(call.tool, call.args) = "low"
    /\ scope_risk(call.session_kind, call.intent) = "low"
    /\ risk = "medium"
    /\ \E n \in 1..NumRules :
           rules[n].when = WhenRisk("medium") /\ rules[n].id \in out.matched_rules

----------------------------------------------------------------------------
(* Properties of the reason code                                           *)

AllIdsNonEmpty == \A n \in 1..NumRules : rules[n].id # ""

AllActionsValid ==
    /\ BasePolicy(constitution) \in Decisions
    /\ \A n \in 1..NumRules :
           RuleAction(rules[n]) \in Decisions /\ OtherwiseAction(rules[n]) \in Decisions

AboveBaseline ==
    pc = "done" /\ ORDER[out.decision] > ORDER[BasePolicy(constitution)]

\* C16: when every rule has a non-empty id and every action is a decision, a
\* final decision strictly above the baseline defaults.tool_policy comes with a
\* reason_code that is not null and is the id of a rule in matched_rules.
C16_RaisedDecisionHasReason ==
    (AboveBaseline /\ AllIdsNonEmpty /\ AllActionsValid) =>
        /\ out.reason_code # NONE
        /\ out.reason_code \in out.matched_rules
        /\ \E n \in 1..NumRules : rules[n].id = out.reason_code

\* A result raised from allow to confirm by the action of a rule, with that
\* rule's id as the reason.
C16_Witness ==
    /\ AboveBaseline /\ AllIdsNonEmpty /\ AllActionsValid
    /\ BasePolicy(constitution) = "allow"
    /\ out.decision = "confirm"
    /\ \E n \in 1..NumRules :
           /\ rules[n].id = out.reason_code
           /\ ~rules[n].allow_if.present
           /\ rules[n].action = "confirm"

\* Without the ids: a rule without an id can raise the decision in pass 1 and
\* leave no reason.
RaisedDecisionHasReasonWithoutIds ==
    (AboveBaseline /\ AllActionsValid) => out.reason_code # NONE

============================================================================
